---- MODULE Spec2Model ----
(***************************************************************************)
(* Model of Common/Hashmaps.h: DenseHashMap<Key, Value> and                *)
(* PrehashMap<Value>, two open-addressing hash tables with linear probing, *)
(* tombstones and doubling growth.                                         *)
(*                                                                         *)
(* A table is a record [map, capacity, count, trapped]: map, capacity_ and *)
(* count_ are the fields of the class; trapped records that a call ran     *)
(* into the wrap-around DebugBreak() of a probe loop, after which the loop *)
(* never returns (it traps again on every further lap).                    *)
(***************************************************************************)
EXTENDS Integers, FiniteSets, Sequences, TLC

\* ---------------------------------------------------------------- bounds
MaxKey == 4          \* keys are 1..MaxKey
MaxVal == 1          \* values are 0..MaxVal, 0 being nullptr
MaxInitLog == 2      \* initial capacities are 2^0 .. 2^MaxInitLog
MaxCapLog == 2       \* an Insert taking the DenseHashMap past capacity 2^MaxCapLog is not taken
MaxPreCapLog == 3    \* an Insert taking the PrehashMap past capacity 2^MaxPreCapLog is not taken

Keys == 1..MaxKey
Values == 0..MaxVal

RECURSIVE Pow2(_)
Pow2(n) == IF n = 0 THEN 1 ELSE 2 * Pow2(n - 1)

InitCaps == {Pow2(e) : e \in 0..MaxInitLog}
MaxCap == Pow2(MaxCapLog)
MaxPreCap == Pow2(MaxPreCapLog)

\* ------------------------------------------------------- program constants
nullptr == 0

FREE == "FREE"
TAKEN == "TAKEN"
REMOVED == "REMOVED"

\* a value-initialised Pair, as std::vector::resize creates it
BlankPair == [state |-> FREE, key |-> 0, value |-> nullptr]
BlankHashPair == [state |-> FREE, hash |-> 0, value |-> nullptr]

\* ------------------------------------------------------------------ state
VARIABLES
    variant,   \* which class the run drives: "dense", "pre", or "both" in lockstep
    hashFn,    \* HashKey restricted to Keys (fixed for the run)
    dense,     \* the DenseHashMap
    pre,       \* the PrehashMap
    expD,      \* history, kept while dupFree: key -> value accepted by DenseHashMap::Insert and not removed or cleared since
    expP,      \* history: the same for PrehashMap
    dupFree,   \* history: Insert was never called with a key that was live
    insOnly,   \* history: only Insert (of non-live keys) and Get were called so far
    cap0,      \* history: the capacity the tables were constructed with
    scn        \* history: progress along the scenario Insert 1,2,3; Remove 2; Insert 4

vars == <<variant, hashFn, dense, pre, expD, expP, dupFree, insOnly, cap0, scn>>

\* ------------------------------------------------------------ bit masking
\* a & b on non-negative integers
RECURSIVE BitAnd(_, _)
BitAnd(a, b) ==
    IF a = 0 \/ b = 0 THEN 0
    ELSE (a % 2) * (b % 2) + 2 * BitAnd(a \div 2, b \div 2)

\* p = (p + 1) & mask
NextSlot(p, mask) == BitAnd(p + 1, mask)

\* ---------------------------------------------------------------- hashing
\* HashKey is XXH32 over the key bytes: some fixed function of the key.  The
\* run fixes one of these: no collisions below 4 slots; key 4 folding onto key
\* 2; every key colliding.
HashIdentity == [k \in Keys |-> k]
HashFold == [k \in Keys |-> IF k > 3 THEN k - 2 ELSE k]
HashConst == [k \in Keys |-> 7]
HashChoices == {HashFold, HashConst}

HashKey(k) == hashFn[k]

KeyEquals(a, b) == a = b

\* ----------------------------------------------------------- construction
NewDenseHashMap(initialCapacity) ==
    [map |-> [i \in 0..(initialCapacity - 1) |-> BlankPair],
     capacity |-> initialCapacity,
     count |-> 0,
     trapped |-> FALSE]

NewPrehashMap(initialCapacity) ==
    [map |-> [i \in 0..(initialCapacity - 1) |-> BlankHashPair],
     capacity |-> initialCapacity,
     count |-> 0,
     trapped |-> FALSE]

\* what Get hands back: a Value (nullptr when nothing was found), or no return
\* at all when the probe wrapped around into DebugBreak()
GetResult(v) == [brk |-> FALSE, value |-> v]
GetTrap == [brk |-> TRUE, value |-> nullptr]
NotFound == GetResult(nullptr)

\* =========================================================== DenseHashMap
\* faulty variant: a REMOVED slot ends the search as a FREE one does
RECURSIVE DenseGetLoopTombstoneEnds(_, _, _, _, _)
DenseGetLoopTombstoneEnds(t, key, mask, pos, p) ==
    IF t.map[p].state = TAKEN /\ KeyEquals(key, t.map[p].key)
    THEN GetResult(t.map[p].value)
    ELSE IF t.map[p].state # TAKEN
    THEN NotFound
    ELSE LET q == NextSlot(p, mask)
         IN  IF q = pos THEN GetTrap ELSE DenseGetLoopTombstoneEnds(t, key, mask, pos, q)

\* faulty variant: the value is read from the home slot, not from the slot found
RECURSIVE DenseGetLoopHomeValue(_, _, _, _, _)
DenseGetLoopHomeValue(t, key, mask, pos, p) ==
    IF t.map[p].state = TAKEN /\ KeyEquals(key, t.map[p].key)
    THEN GetResult(t.map[pos].value)
    ELSE IF t.map[p].state = FREE
    THEN NotFound
    ELSE LET q == NextSlot(p, mask)
         IN  IF q = pos THEN GetTrap ELSE DenseGetLoopHomeValue(t, key, mask, pos, q)

\* the probe loop of Get, at slot p
RECURSIVE DenseGetLoop(_, _, _, _, _)
DenseGetLoop(t, key, mask, pos, p) ==
    IF t.map[p].state = TAKEN /\ KeyEquals(key, t.map[p].key)
    THEN GetResult(t.map[p].value)
    ELSE IF t.map[p].state = FREE
    THEN NotFound
    ELSE LET q == NextSlot(p, mask)
         IN  IF q = pos THEN GetTrap ELSE DenseGetLoop(t, key, mask, pos, q)

DenseGet(t, key) ==
    LET mask == t.capacity - 1
        pos == BitAnd(HashKey(key), mask)
    IN  DenseGetLoop(t, key, mask, pos, pos)

\* the probe loop of Insert, at slot p: the slot to fill, a duplicate, or the
\* wrap-around DebugBreak()
RECURSIVE DenseInsertLoop(_, _, _, _, _)
DenseInsertLoop(t, key, mask, pos, p) ==
    IF t.map[p].state = TAKEN
    THEN IF KeyEquals(key, t.map[p].key)
         THEN [kind |-> "dup", p |-> p]
         ELSE LET q == NextSlot(p, mask)
              IN  IF q = pos THEN [kind |-> "full", p |-> p]
                  ELSE DenseInsertLoop(t, key, mask, pos, q)
    ELSE [kind |-> "place", p |-> p]

RECURSIVE DenseInsert(_, _, _)
RECURSIVE DenseGrow(_)
RECURSIVE DenseReinsert(_, _, _)

\* faulty variant: the count is compared with the capacity, not with half of it
DenseLoadExceededWhenFull(t) == t.count > t.capacity

\* the load-factor check at the head of Insert
DenseLoadExceeded(t) == t.count > t.capacity \div 2

\* Insert: the table afterwards, the value returned, and whether the
\* duplicate-key DebugBreak() was passed
DenseInsert(t, key, value) ==
    LET g == IF DenseLoadExceeded(t) THEN DenseGrow(t) ELSE t
        mask == g.capacity - 1
        pos == BitAnd(HashKey(key), mask)
        r == DenseInsertLoop(g, key, mask, pos, pos)
    IN  IF g.trapped
        THEN [t |-> g, ret |-> FALSE, dbg |-> FALSE]
        ELSE IF r.kind = "dup"
        THEN [t |-> g, ret |-> FALSE, dbg |-> TRUE]
        ELSE IF r.kind = "full"
        THEN [t |-> [g EXCEPT !.trapped = TRUE], ret |-> FALSE, dbg |-> FALSE]
        ELSE [t |-> [g EXCEPT !.map[r.p] = [state |-> TAKEN, key |-> key, value |-> value],
                              !.count = @ + 1],
              ret |-> TRUE, dbg |-> FALSE]

\* the loop of Grow over the old array, at index i
DenseReinsert(cur, old, i) ==
    IF i = Cardinality(DOMAIN old) \/ cur.trapped
    THEN cur
    ELSE IF old[i].state = TAKEN
    THEN DenseReinsert(DenseInsert(cur, old[i].key, old[i].value).t, old, i + 1)
    ELSE DenseReinsert(cur, old, i + 1)

\* faulty variant: capacity_ += 2
DenseGrowByTwo(t) ==
    LET old == t.map
        capacity == t.capacity + 2
        fresh == [map |-> [i \in 0..(capacity - 1) |-> BlankPair],
                  capacity |-> capacity,
                  count |-> 0,
                  trapped |-> t.trapped]
    IN  DenseReinsert(fresh, old, 0)

DenseGrow(t) ==
    LET old == t.map
        capacity == t.capacity * 2
        fresh == [map |-> [i \in 0..(capacity - 1) |-> BlankPair],
                  capacity |-> capacity,
                  count |-> 0,
                  trapped |-> t.trapped]
    IN  DenseReinsert(fresh, old, 0)

\* faulty variant: the slot found is marked FREE, not REMOVED
RECURSIVE DenseRemoveLoopFrees(_, _, _, _, _)
DenseRemoveLoopFrees(t, key, mask, pos, p) ==
    IF t.map[p].state = FREE
    THEN t
    ELSE IF t.map[p].state = TAKEN /\ KeyEquals(key, t.map[p].key)
    THEN [t EXCEPT !.map[p].state = FREE, !.count = @ - 1]
    ELSE LET q == NextSlot(p, mask)
         IN  IF q = pos THEN [t EXCEPT !.trapped = TRUE]
             ELSE DenseRemoveLoopFrees(t, key, mask, pos, q)

\* the loop of Remove, at slot p
RECURSIVE DenseRemoveLoop(_, _, _, _, _)
DenseRemoveLoop(t, key, mask, pos, p) ==
    IF t.map[p].state = FREE
    THEN t
    ELSE IF t.map[p].state = TAKEN /\ KeyEquals(key, t.map[p].key)
    THEN [t EXCEPT !.map[p].state = REMOVED, !.count = @ - 1]
    ELSE LET q == NextSlot(p, mask)
         IN  IF q = pos THEN [t EXCEPT !.trapped = TRUE]
             ELSE DenseRemoveLoop(t, key, mask, pos, q)

DenseRemove(t, key) ==
    LET mask == t.capacity - 1
        pos == BitAnd(HashKey(key), mask)
    IN  DenseRemoveLoop(t, key, mask, pos, pos)

DenseSize(t) == t.count

\* Iterate: the calls of func, in order, each with the slot it was made for
RECURSIVE DenseIterateFrom(_, _)
DenseIterateFrom(t, i) ==
    IF i = Cardinality(DOMAIN t.map)
    THEN << >>
    ELSE IF t.map[i].state = TAKEN
    THEN <<[slot |-> i, key |-> t.map[i].key, value |-> t.map[i].value]>>
             \o DenseIterateFrom(t, i + 1)
    ELSE DenseIterateFrom(t, i + 1)

DenseIterate(t) == DenseIterateFrom(t, 0)

\* faulty variant: map.resize(capacity_) without map.clear()
DenseClearResizeOnly(t) == t

\* map.clear(); map.resize(capacity_)
DenseClear(t) == [t EXCEPT !.map = [i \in 0..(t.capacity - 1) |-> BlankPair]]

\* ============================================================= PrehashMap
RECURSIVE PrehashGetLoop(_, _, _, _, _)
PrehashGetLoop(t, hash, mask, pos, p) ==
    IF t.map[p].state = TAKEN /\ hash = t.map[p].hash
    THEN GetResult(t.map[p].value)
    ELSE IF t.map[p].state = FREE
    THEN NotFound
    ELSE LET q == NextSlot(p, mask)
         IN  IF q = pos THEN GetTrap ELSE PrehashGetLoop(t, hash, mask, pos, q)

PrehashGet(t, hash) ==
    LET mask == t.capacity - 1
        pos == BitAnd(hash, mask)
    IN  PrehashGetLoop(t, hash, mask, pos, pos)

\* the probe loop of Insert, at slot p
RECURSIVE PrehashInsertLoop(_, _, _, _, _)
PrehashInsertLoop(t, hash, mask, pos, p) ==
    IF t.map[p].state # FREE
    THEN IF t.map[p].state = TAKEN
         THEN IF hash = t.map[p].hash
              THEN [kind |-> "dup", p |-> p]
              ELSE LET q == NextSlot(p, mask)
                   IN  IF q = pos THEN [kind |-> "full", p |-> p]
                       ELSE PrehashInsertLoop(t, hash, mask, pos, q)
         ELSE [kind |-> "place", p |-> p]
    ELSE [kind |-> "place", p |-> p]

RECURSIVE PrehashInsert(_, _, _)
RECURSIVE PrehashGrow(_)
RECURSIVE PrehashReinsert(_, _, _)

\* faulty variant: the count is compared with the capacity, not with half of it
PrehashLoadExceededWhenFull(t) == t.count > t.capacity

PrehashLoadExceeded(t) == t.count > t.capacity \div 2

PrehashInsert(t, hash, value) ==
    LET g == IF PrehashLoadExceeded(t) THEN PrehashGrow(t) ELSE t
        mask == g.capacity - 1
        pos == BitAnd(hash, mask)
        r == PrehashInsertLoop(g, hash, mask, pos, pos)
    IN  IF g.trapped
        THEN [t |-> g, ret |-> FALSE, dbg |-> FALSE]
        ELSE IF r.kind = "dup"
        THEN [t |-> g, ret |-> FALSE, dbg |-> FALSE]
        ELSE IF r.kind = "full"
        THEN [t |-> [g EXCEPT !.trapped = TRUE], ret |-> FALSE, dbg |-> FALSE]
        ELSE [t |-> [g EXCEPT !.map[r.p] = [state |-> TAKEN, hash |-> hash, value |-> value],
                              !.count = @ + 1],
              ret |-> TRUE, dbg |-> FALSE]

\* the loop of Grow over the old array, at index i.  Each Insert works on the
\* members map, capacity_ and count_ as the previous one left them, a nested
\* Grow included.
PrehashReinsert(cur, old, i) ==
    IF i = Cardinality(DOMAIN old) \/ cur.trapped
    THEN cur
    ELSE IF old[i].state = TAKEN
    THEN PrehashReinsert(PrehashInsert(cur, old[i].hash, old[i].value).t, old, i + 1)
    ELSE PrehashReinsert(cur, old, i + 1)

\* count_ is left as it is
PrehashGrow(t) ==
    LET old == t.map
        capacity == t.capacity * 2
        fresh == [map |-> [i \in 0..(capacity - 1) |-> BlankHashPair],
                  capacity |-> capacity,
                  count |-> t.count,
                  trapped |-> t.trapped]
    IN  PrehashReinsert(fresh, old, 0)

\* faulty variant: count_ is decremented also when the key is not found
RECURSIVE PrehashRemoveLoopAlwaysCounts(_, _, _, _, _)
PrehashRemoveLoopAlwaysCounts(t, hash, mask, pos, p) ==
    IF t.map[p].state = FREE
    THEN [t EXCEPT !.count = @ - 1]
    ELSE IF t.map[p].state = TAKEN /\ hash = t.map[p].hash
    THEN [t EXCEPT !.map[p].state = REMOVED, !.count = @ - 1]
    ELSE LET q == NextSlot(p, mask)
         IN  IF q = pos THEN [t EXCEPT !.trapped = TRUE]
             ELSE PrehashRemoveLoopAlwaysCounts(t, hash, mask, pos, q)

\* faulty variant: the entry is marked REMOVED but count_ is not decremented
RECURSIVE PrehashRemoveLoopKeepsCount(_, _, _, _, _)
PrehashRemoveLoopKeepsCount(t, hash, mask, pos, p) ==
    IF t.map[p].state = FREE
    THEN t
    ELSE IF t.map[p].state = TAKEN /\ hash = t.map[p].hash
    THEN [t EXCEPT !.map[p].state = REMOVED]
    ELSE LET q == NextSlot(p, mask)
         IN  IF q = pos THEN [t EXCEPT !.trapped = TRUE]
             ELSE PrehashRemoveLoopKeepsCount(t, hash, mask, pos, q)

\* the loop of Remove, at slot p
RECURSIVE PrehashRemoveLoop(_, _, _, _, _)
PrehashRemoveLoop(t, hash, mask, pos, p) ==
    IF t.map[p].state = FREE
    THEN t
    ELSE IF t.map[p].state = TAKEN /\ hash = t.map[p].hash
    THEN [t EXCEPT !.map[p].state = REMOVED, !.count = @ - 1]
    ELSE LET q == NextSlot(p, mask)
         IN  IF q = pos THEN [t EXCEPT !.trapped = TRUE]
             ELSE PrehashRemoveLoop(t, hash, mask, pos, q)

PrehashRemove(t, hash) ==
    LET mask == t.capacity - 1
        pos == BitAnd(hash, mask)
    IN  PrehashRemoveLoop(t, hash, mask, pos, pos)

PrehashSize(t) == t.count

RECURSIVE PrehashIterateFrom(_, _)
PrehashIterateFrom(t, i) ==
    IF i = Cardinality(DOMAIN t.map)
    THEN << >>
    ELSE IF t.map[i].state = TAKEN
    THEN <<[slot |-> i, hash |-> t.map[i].hash, value |-> t.map[i].value]>>
             \o PrehashIterateFrom(t, i + 1)
    ELSE PrehashIterateFrom(t, i + 1)

PrehashIterate(t) == PrehashIterateFrom(t, 0)

PrehashClear(t) == [t EXCEPT !.map = [i \in 0..(t.capacity - 1) |-> BlankHashPair]]

\* ========================================================= the state machine
UseD == variant # "pre"
UseP == variant # "dense"

\* some TAKEN slot holds the key
DenseLive(t, key) == \E i \in DOMAIN t.map : t.map[i].state = TAKEN /\ t.map[i].key = key
PrehashLive(t, hash) == \E i \in DOMAIN t.map : t.map[i].state = TAKEN /\ t.map[i].hash = hash

Put(f, k, v) == [x \in (DOMAIN f) \cup {k} |-> IF x = k THEN v ELSE f[x]]
Drop(f, k) == [x \in (DOMAIN f) \ {k} |-> f[x]]
Empty == [x \in {} |-> nullptr]

\* no call is made on a table that is stuck in a probe loop
Running == ~dense.trapped /\ ~pre.trapped

Init ==
    /\ variant \in {"dense", "pre", "both"}
    /\ hashFn \in (IF variant = "dense" THEN HashChoices ELSE {HashIdentity})
    /\ \E c \in InitCaps :
          /\ dense = NewDenseHashMap(c)
          /\ pre = NewPrehashMap(c)
          /\ cap0 = c
          /\ scn = IF c = 4 THEN "start" ELSE "off"
    /\ expD = Empty
    /\ expP = Empty
    /\ dupFree = TRUE
    /\ insOnly = TRUE

ScnAfter(op, key) ==
    IF scn = "start" /\ op = "Insert" /\ key = 1 THEN "i1"
    ELSE IF scn = "i1" /\ op = "Insert" /\ key = 2 THEN "i2"
    ELSE IF scn = "i2" /\ op = "Insert" /\ key = 3 THEN "i3"
    ELSE IF scn = "i3" /\ op = "Remove" /\ key = 2 THEN "r2"
    ELSE IF scn = "r2" /\ op = "Insert" /\ key = 4 THEN "i4"
    ELSE "off"

Insert(key, value) ==
    LET rD == IF UseD THEN DenseInsert(dense, key, value)
                      ELSE [t |-> dense, ret |-> FALSE, dbg |-> FALSE]
        rP == IF UseP THEN PrehashInsert(pre, key, value)
                      ELSE [t |-> pre, ret |-> FALSE, dbg |-> FALSE]
        dup == (UseD /\ DenseLive(dense, key)) \/ (UseP /\ PrehashLive(pre, key))
    IN  /\ Running
        /\ rD.t.capacity <= MaxCap
        /\ rP.t.capacity <= MaxPreCap
        /\ dense' = rD.t
        /\ pre' = rP.t
        /\ dupFree' = (dupFree /\ ~dup)
        /\ insOnly' = (insOnly /\ ~dup)
        /\ expD' = IF ~dupFree' THEN Empty ELSE IF rD.ret THEN Put(expD, key, value) ELSE expD
        /\ expP' = IF ~dupFree' THEN Empty ELSE IF rP.ret THEN Put(expP, key, value) ELSE expP
        /\ scn' = ScnAfter("Insert", key)
        /\ UNCHANGED <<variant, hashFn, cap0>>

Remove(key) ==
    /\ Running
    /\ dense' = IF UseD THEN DenseRemove(dense, key) ELSE dense
    /\ pre' = IF UseP THEN PrehashRemove(pre, key) ELSE pre
    /\ expD' = Drop(expD, key)
    /\ expP' = Drop(expP, key)
    /\ insOnly' = FALSE
    /\ scn' = ScnAfter("Remove", key)
    /\ UNCHANGED <<variant, hashFn, cap0, dupFree>>

\* Get changes nothing unless it never returns
Get(key) ==
    LET gD == IF UseD THEN DenseGet(dense, key) ELSE NotFound
        gP == IF UseP THEN PrehashGet(pre, key) ELSE NotFound
    IN  /\ Running
        /\ dense' = [dense EXCEPT !.trapped = gD.brk]
        /\ pre' = [pre EXCEPT !.trapped = gP.brk]
        /\ UNCHANGED <<variant, hashFn, expD, expP, dupFree, insOnly, cap0, scn>>

Clear ==
    /\ Running
    /\ dense' = IF UseD THEN DenseClear(dense) ELSE dense
    /\ pre' = IF UseP THEN PrehashClear(pre) ELSE pre
    /\ expD' = Empty
    /\ expP' = Empty
    /\ insOnly' = FALSE
    /\ scn' = "off"
    /\ UNCHANGED <<variant, hashFn, cap0, dupFree>>

Next ==
    \/ \E key \in Keys, value \in Values : Insert(key, value)
    \/ \E key \in Keys : Remove(key)
    \/ \E key \in Keys : Get(key)
    \/ Clear

Spec == Init /\ [][Next]_vars

\* ================================================================= claims
DenseHome(t, key) == BitAnd(HashKey(key), t.capacity - 1)
PrehashHome(t, hash) == BitAnd(hash, t.capacity - 1)

\* C1: round trip.  While Insert has only been called with keys that were not
\* live, every key whose Insert returned true and that was not removed or
\* cleared since is returned by Get with exactly the value inserted, in the
\* DenseHashMap and in the PrehashMap.
RoundTrip ==
    dupFree =>
        /\ \A k \in DOMAIN expD : DenseGet(dense, k) = GetResult(expD[k])
        /\ \A k \in DOMAIN expP : PrehashGet(pre, k) = GetResult(expP[k])

\* a key found behind a tombstone in its home slot, in a table that has grown
RoundTripWitness ==
    /\ dupFree
    /\ dense.capacity > cap0
    /\ \E k \in DOMAIN expD :
          /\ dense.map[DenseHome(dense, k)].state = REMOVED
          /\ expD[k] # nullptr
          /\ DenseGet(dense, k) = GetResult(expD[k])

\* C2: post-removal absence.  Once Remove(k) has returned, Get(k) returns and
\* reports not-found (no value, no wrap-around DebugBreak), in either table.
PostRemovalAbsence ==
    [][\A k \in Keys :
          (Remove(k) /\ ~dense'.trapped /\ ~pre'.trapped) =>
              /\ UseD => DenseGet(dense', k) = NotFound
              /\ UseP => PrehashGet(pre', k) = NotFound]_vars

DenseCopies(t, key) == {i \in DOMAIN t.map : t.map[i].state = TAKEN /\ t.map[i].key = key}
PrehashCopies(t, hash) == {i \in DOMAIN t.map : t.map[i].state = TAKEN /\ t.map[i].hash = hash}

\* C3: duplicate rejection.  Insert(k, v2) while some TAKEN slot holds k returns
\* false, leaves Get(k) and size() as they were and leaves k in one slot only.
DuplicateRejected ==
    [][\A k \in Keys, v \in Values :
          Insert(k, v) =>
              /\ (UseD /\ DenseLive(dense, k)) =>
                    /\ ~DenseInsert(dense, k, v).ret
                    /\ DenseGet(dense', k) = DenseGet(dense, k)
                    /\ DenseSize(dense') = DenseSize(dense)
                    /\ Cardinality(DenseCopies(dense', k)) = 1
              /\ (UseP /\ PrehashLive(pre, k)) =>
                    /\ ~PrehashInsert(pre, k, v).ret
                    /\ PrehashGet(pre', k) = PrehashGet(pre, k)
                    /\ PrehashSize(pre') = PrehashSize(pre)
                    /\ Cardinality(PrehashCopies(pre', k)) = 1]_vars

DenseTaken(t) == Cardinality({i \in DOMAIN t.map : t.map[i].state = TAKEN})
PrehashTaken(t) == Cardinality({i \in DOMAIN t.map : t.map[i].state = TAKEN})

\* C4 as claimed: right after any Insert the live-entry count is at most
\* capacity/2, in either table.
LoadFactorHalf ==
    [][\A k \in Keys, v \in Values :
          Insert(k, v) =>
              /\ UseD => DenseSize(dense') <= dense'.capacity \div 2
              /\ UseP => PrehashSize(pre') <= pre'.capacity \div 2]_vars

\* C4 as amended: the number of TAKEN slots is at most capacity/2 + 1 in either
\* table, and so is size() of the DenseHashMap.  Only Insert adds an entry or
\* changes the capacity, so this is the bound that holds right after any Insert.
LoadFactorHalfPlusOne ==
    /\ UseD => /\ DenseTaken(dense) <= dense.capacity \div 2 + 1
               /\ DenseSize(dense) <= dense.capacity \div 2 + 1
    /\ UseP => PrehashTaken(pre) <= pre.capacity \div 2 + 1

\* an Insert has filled a table of capacity 4 to capacity/2 + 1 live entries
LoadFactorWitness ==
    /\ dense.capacity = 4
    /\ DenseTaken(dense) = 3
    /\ DenseSize(dense) = 3

\* C5: Get never walks the whole array: for no key, present or absent, does
\* Get reach the DebugBreak at the p == pos check.
GetNeverWraps ==
    \A k \in Keys :
        /\ UseD => ~DenseGet(dense, k).brk
        /\ UseP => ~PrehashGet(pre, k).brk

\* C6: after inserting N distinct keys into a fresh table and nothing else,
\* through one or more growth events, Get returns the value inserted for each
\* of the N keys and size() is N, in either table.
GrowthPreservesSetAndSize ==
    insOnly =>
        /\ (UseD /\ dense.capacity > cap0) =>
              /\ \A k \in DOMAIN expD : DenseGet(dense, k) = GetResult(expD[k])
              /\ DenseSize(dense) = Cardinality(DOMAIN expD)
        /\ (UseP /\ pre.capacity > cap0) =>
              /\ \A k \in DOMAIN expP : PrehashGet(pre, k) = GetResult(expP[k])
              /\ PrehashSize(pre) = Cardinality(DOMAIN expP)

\* C7: after Clear() returns size() is 0, in either table.
ClearResetsSize ==
    [][Clear =>
          /\ UseD => DenseSize(dense') = 0
          /\ UseP => PrehashSize(pre') = 0]_vars

\* C8 as claimed: what Get returns for a live key differs from what it returns
\* for an absent key, whatever value is stored.
NotFoundDistinct ==
    \A k \in Keys, a \in Keys :
        /\ (UseD /\ DenseLive(dense, k) /\ ~DenseLive(dense, a)) =>
              DenseGet(dense, k) # DenseGet(dense, a)
        /\ (UseP /\ PrehashLive(pre, k) /\ ~PrehashLive(pre, a)) =>
              PrehashGet(pre, k) # PrehashGet(pre, a)

\* C8 as amended: what Get returns for a live key stored with a non-null value
\* differs from what it returns for an absent key.
NotFoundDistinctFromNonNull ==
    \A k \in Keys, a \in Keys :
        /\ (/\ UseD /\ DenseLive(dense, k) /\ ~DenseLive(dense, a)
            /\ \A i \in DenseCopies(dense, k) : dense.map[i].value # nullptr) =>
              DenseGet(dense, k) # DenseGet(dense, a)
        /\ (/\ UseP /\ PrehashLive(pre, k) /\ ~PrehashLive(pre, a)
            /\ \A i \in PrehashCopies(pre, k) : pre.map[i].value # nullptr) =>
              PrehashGet(pre, k) # PrehashGet(pre, a)

\* a live key with a non-null value behind another entry, and an absent key
\* whose search ends at a FREE slot
NotFoundWitness ==
    \E k \in Keys, a \in Keys :
        /\ UseD /\ DenseLive(dense, k) /\ ~DenseLive(dense, a)
        /\ \A i \in DenseCopies(dense, k) : dense.map[i].value # nullptr
        /\ dense.map[DenseHome(dense, k)].state = TAKEN
        /\ dense.map[DenseHome(dense, k)].key # k
        /\ DenseGet(dense, a) = NotFound

\* keys 1, 2, 3 have distinct home slots in a table of capacity 4
DenseDistinctHomes == Cardinality({BitAnd(HashKey(k), 3) : k \in {1, 2, 3}}) = 3

SameStateMachine ==
    (variant = "both" /\ hashFn = HashIdentity) =>
        /\ dense.capacity = pre.capacity
        /\ DOMAIN dense.map = DOMAIN pre.map
        /\ \A i \in (DOMAIN dense.map) \cap (DOMAIN pre.map) : dense.map[i].state = pre.map[i].state
        /\ DenseSize(dense) = PrehashSize(pre)
        /\ \A k \in Keys : DenseGet(dense, k) = PrehashGet(pre, k)
        /\ \A k \in Keys, v \in Values :
              DenseInsert(dense, k, v).ret = PrehashInsert(pre, k, v).ret

TakenSlots(t) == {i \in DOMAIN t.map : t.map[i].state = TAKEN}

\* the calls were made for exactly the slots of S, once each
VisitsExactly(calls, S) ==
    /\ {calls[n].slot : n \in DOMAIN calls} = S
    /\ Len(calls) = Cardinality(S)

\* C11: iteration completeness.  Iterate calls func exactly once for each TAKEN
\* slot, for no other slot, and as many times as size() says, in either table.
IterationComplete ==
    /\ UseD => /\ VisitsExactly(DenseIterate(dense), TakenSlots(dense))
               /\ Len(DenseIterate(dense)) = DenseSize(dense)
    /\ UseP => /\ VisitsExactly(PrehashIterate(pre), TakenSlots(pre))
               /\ Len(PrehashIterate(pre)) = PrehashSize(pre)

\* C12: Remove of a key that is not live returns and changes nothing: no slot,
\* not count_, not capacity_, and no wrap-around DebugBreak.
RemoveAbsentIsNoOp ==
    \A k \in Keys :
        /\ (UseD /\ ~dense.trapped /\ ~DenseLive(dense, k)) => DenseRemove(dense, k) = dense
        /\ (UseP /\ ~pre.trapped /\ ~PrehashLive(pre, k)) => PrehashRemove(pre, k) = pre

IsPow2(n) == \E e \in 0..(MaxPreCapLog + 1) : n = Pow2(e)

CapacityWellFormed(t) ==
    /\ t.capacity >= 1
    /\ IsPow2(t.capacity)
    /\ DOMAIN t.map = 0..(t.capacity - 1)

\* C13: the capacity is a power of two >= 1 and the length of the slot array in
\* every state, and no step makes it smaller, in either table.
CapacityInvariant ==
    [][/\ CapacityWellFormed(dense) /\ CapacityWellFormed(pre)
       /\ CapacityWellFormed(dense') /\ CapacityWellFormed(pre')
       /\ dense'.capacity >= dense.capacity
       /\ pre'.capacity >= pre.capacity]_vars

\* both tables have grown, the PrehashMap to four times its first capacity
CapacityWitness ==
    /\ variant = "both"
    /\ dense.capacity = 2 * cap0
    /\ pre.capacity = 4 * cap0

\* the slots a probe from slot home visits before it reaches slot p
ProbePath(t, home, p) ==
    LET d == (p - home + t.capacity) % t.capacity
    IN  {BitAnd(home + j, t.capacity - 1) : j \in 0..(d - 1)}

\* C14: probe-path invariant.  For every TAKEN slot p holding key K no slot
\* from K's home slot up to but excluding p, with wrap-around, is FREE, in
\* either table.
ProbePathInvariant ==
    /\ UseD => \A p \in TakenSlots(dense) :
                  \A q \in ProbePath(dense, DenseHome(dense, dense.map[p].key), p) :
                      dense.map[q].state # FREE
    /\ UseP => \A p \in TakenSlots(pre) :
                  \A q \in ProbePath(pre, PrehashHome(pre, pre.map[p].hash), p) :
                      pre.map[q].state # FREE

\* an entry sits beyond a tombstone that lies between its home slot and it,
\* in a table that has grown
ProbePathWitness ==
    /\ UseD
    /\ dense.capacity > cap0
    /\ \E p \in TakenSlots(dense) :
          \E q \in ProbePath(dense, DenseHome(dense, dense.map[p].key), p) :
              dense.map[q].state = REMOVED

\* C15: growth trigger and amount.  One Insert call leaves the capacity as it
\* is when the live count on entry is <= capacity/2 and makes it exactly twice
\* its entry value when the count is > capacity/2, in either table.
GrowthOnceOrNever ==
    \A k \in Keys, v \in Values :
        /\ (UseD /\ ~dense.trapped) =>
              DenseInsert(dense, k, v).t.capacity =
                  IF DenseSize(dense) > dense.capacity \div 2
                  THEN 2 * dense.capacity ELSE dense.capacity
        /\ (UseP /\ ~pre.trapped) =>
              PrehashInsert(pre, k, v).t.capacity =
                  IF PrehashSize(pre) > pre.capacity \div 2
                  THEN 2 * pre.capacity ELSE pre.capacity

NoTombstone(t) == \A i \in DOMAIN t.map : t.map[i].state # REMOVED

\* C16: growth compacts and loses nothing.  While no duplicate was ever
\* inserted, an Insert(k, v) of a key that is not live and that triggers growth
\* returns with no REMOVED slot in the array and with Get of every other key
\* giving what it gave right before the call.
GrowthCompactsAndKeeps ==
    dupFree =>
        \A k \in Keys, v \in Values :
            /\ (UseD /\ ~dense.trapped /\ ~DenseLive(dense, k) /\ DenseLoadExceeded(dense)) =>
                  LET after == DenseInsert(dense, k, v).t
                  IN  /\ NoTombstone(after)
                      /\ \A j \in Keys \ {k} : DenseGet(after, j) = DenseGet(dense, j)
            /\ (UseP /\ ~pre.trapped /\ ~PrehashLive(pre, k) /\ PrehashLoadExceeded(pre)) =>
                  LET after == PrehashInsert(pre, k, v).t
                  IN  /\ NoTombstone(after)
                      /\ \A j \in Keys \ {k} : PrehashGet(after, j) = PrehashGet(pre, j)

\* the first slot from slot home, wrapping, that is FREE or REMOVED
OpenOffsets(t, home) ==
    {j \in 0..(t.capacity - 1) : t.map[BitAnd(home + j, t.capacity - 1)].state # TAKEN}
Least(S) == CHOOSE j \in S : \A x \in S : j <= x
FirstOpen(t, home) == BitAnd(home + Least(OpenOffsets(t, home)), t.capacity - 1)

DenseStoredAt(before, after, p, key, value) ==
    /\ after.map[p] = [state |-> TAKEN, key |-> key, value |-> value]
    /\ \A i \in DOMAIN before.map \ {p} : after.map[i] = before.map[i]
    /\ DOMAIN after.map = DOMAIN before.map
    /\ after.capacity = before.capacity
    /\ after.count = before.count + 1

PrehashStoredAt(before, after, p, hash, value) ==
    /\ after.map[p] = [state |-> TAKEN, hash |-> hash, value |-> value]
    /\ \A i \in DOMAIN before.map \ {p} : after.map[i] = before.map[i]
    /\ DOMAIN after.map = DOMAIN before.map
    /\ after.capacity = before.capacity
    /\ after.count = before.count + 1

\* Insert(B, v) of a key that is not live, without growth, fills the first
\* FREE-or-REMOVED slot of B's probe path and nothing else
DenseFillsFirstOpen(t, B, v) ==
    (~t.trapped /\ ~DenseLive(t, B) /\ ~DenseLoadExceeded(t)) =>
        /\ OpenOffsets(t, DenseHome(t, B)) # {}
        /\ DenseInsert(t, B, v).ret
        /\ DenseStoredAt(t, DenseInsert(t, B, v).t, FirstOpen(t, DenseHome(t, B)), B, v)

PrehashFillsFirstOpen(t, B, v) ==
    (~t.trapped /\ ~PrehashLive(t, B) /\ ~PrehashLoadExceeded(t)) =>
        /\ OpenOffsets(t, PrehashHome(t, B)) # {}
        /\ PrehashInsert(t, B, v).ret
        /\ PrehashStoredAt(t, PrehashInsert(t, B, v).t, FirstOpen(t, PrehashHome(t, B)), B, v)

\* after Remove(A) a key B whose probe path reaches A's former slot a is stored
\* there; Get(B) returns v and Get(A) returns no value
DenseReusesTombstone(t, A, a, B, v) ==
    LET removed == DenseRemove(t, A)
        after == DenseInsert(removed, B, v).t
    IN  (/\ ~t.trapped /\ t.map[a].state = TAKEN /\ t.map[a].key = A
         /\ removed.map[a].state = REMOVED
         /\ ~DenseLive(removed, B) /\ ~DenseLoadExceeded(removed)
         /\ \A q \in ProbePath(removed, DenseHome(removed, B), a) : removed.map[q].state = TAKEN) =>
            /\ DenseStoredAt(removed, after, a, B, v)
            /\ DenseGet(after, B) = GetResult(v)
            /\ DenseGet(after, A).value = nullptr

PrehashReusesTombstone(t, A, a, B, v) ==
    LET removed == PrehashRemove(t, A)
        after == PrehashInsert(removed, B, v).t
    IN  (/\ ~t.trapped /\ t.map[a].state = TAKEN /\ t.map[a].hash = A
         /\ removed.map[a].state = REMOVED
         /\ ~PrehashLive(removed, B) /\ ~PrehashLoadExceeded(removed)
         /\ \A q \in ProbePath(removed, PrehashHome(removed, B), a) : removed.map[q].state = TAKEN) =>
            /\ PrehashStoredAt(removed, after, a, B, v)
            /\ PrehashGet(after, B) = GetResult(v)
            /\ PrehashGet(after, A).value = nullptr

\* C17: tombstone reuse and slot choice.  An Insert(B, v) of a key that is not
\* live and that triggers no growth sets the first FREE-or-REMOVED slot of B's
\* probe path to TAKEN with (B, v), adds one to the count and leaves every
\* other slot alone; after Remove(A) a B whose probe path reaches A's former
\* slot is stored there, Get(B) returns v and Get(A) returns no value.
TombstoneReuse ==
    /\ UseD => \A B \in Keys, v \in Values :
                  /\ DenseFillsFirstOpen(dense, B, v)
                  /\ \A A \in Keys \ {B}, a \in DOMAIN dense.map :
                        DenseReusesTombstone(dense, A, a, B, v)
    /\ UseP => \A B \in Keys, v \in Values :
                  /\ PrehashFillsFirstOpen(pre, B, v)
                  /\ \A A \in Keys \ {B}, a \in DOMAIN pre.map :
                        PrehashReusesTombstone(pre, A, a, B, v)

\* C18: Insert never finds the table full.  In no reachable state does an
\* Insert, of any key and with whatever growth and re-insertion it starts,
\* walk back to its start slot: the 'FULL!' DebugBreak is never reached and
\* Insert returns, in either table.
InsertNeverFull ==
    \A k \in Keys, v \in Values :
        /\ (UseD /\ ~dense.trapped) => ~DenseInsert(dense, k, v).t.trapped
        /\ (UseP /\ ~pre.trapped) => ~PrehashInsert(pre, k, v).t.trapped

\* every slot of the array is TAKEN and the next Insert must grow, in a table
\* that was cleared or had entries removed before
InsertNeverFullWitness ==
    /\ UseP
    /\ ~insOnly
    /\ pre.capacity = 2
    /\ TakenSlots(pre) = DOMAIN pre.map
    /\ \A k \in Keys, v \in Values : ~PrehashInsert(pre, k, v).t.trapped

AllFree(t) == \A i \in DOMAIN t.map : t.map[i].state = FREE

\* C19: after Clear() every slot is FREE, the array has the length and
\* capacity_ the value it had, Get of every key reports not-found, and a
\* following Insert of any key returns true, in either table.
ClearEmptiesAndKeepsCapacity ==
    [][Clear =>
          /\ UseD => /\ AllFree(dense')
                     /\ DOMAIN dense'.map = DOMAIN dense.map
                     /\ dense'.capacity = dense.capacity
                     /\ \A k \in Keys : DenseGet(dense', k) = NotFound
                     /\ \A k \in Keys, v \in Values : DenseInsert(dense', k, v).ret
          /\ UseP => /\ AllFree(pre')
                     /\ DOMAIN pre'.map = DOMAIN pre.map
                     /\ pre'.capacity = pre.capacity
                     /\ \A k \in Keys : PrehashGet(pre', k) = NotFound
                     /\ \A k \in Keys, v \in Values : PrehashInsert(pre', k, v).ret]_vars

\* a table that held entries and tombstones has been cleared: every slot is
\* FREE and size() still counts the entries
ClearWitness ==
    /\ UseD
    /\ dense.capacity = 4
    /\ AllFree(dense)
    /\ DenseSize(dense) = 3

\* C20: count_ is never below the number of TAKEN slots nor below 0, and the
\* number of TAKEN slots is at most capacity/2 + 1, in every state of either
\* table.
CountCoversTaken ==
    /\ UseD => /\ DenseSize(dense) >= Cardinality(TakenSlots(dense))
               /\ DenseSize(dense) >= 0
               /\ Cardinality(TakenSlots(dense)) <= dense.capacity \div 2 + 1
    /\ UseP => /\ PrehashSize(pre) >= Cardinality(TakenSlots(pre))
               /\ PrehashSize(pre) >= 0
               /\ Cardinality(TakenSlots(pre)) <= pre.capacity \div 2 + 1

\* after a removal and a growth of PrehashMap: the number of TAKEN slots is at
\* its bound capacity/2 + 1 and count_ is above it
CountCoversTakenWitness ==
    /\ UseP
    /\ ~insOnly
    /\ pre.capacity = 2
    /\ Cardinality(TakenSlots(pre)) = pre.capacity \div 2 + 1
    /\ PrehashSize(pre) = 3

====
